---- MODULE Spec2Model ----
(***************************************************************************)
(* Leader-side single-round replication state machine of                   *)
(* src/v/raft/replicate_entries_stm.cc (raft::replicate_entries_stm).      *)
(* One instance of the state machine drives one batch: apply (self append, *)
(* per-voter dispatch, cleanup task), wait_for_majority (commit wait) and  *)
(* wait_for_shutdown (gate close).  The consensus object behind _ptr is    *)
(* the environment: its commit index, term, log and condition variable     *)
(* change under the Env* actions.                                          *)
(***************************************************************************)
EXTENDS Integers, FiniteSets, Sequences, TLC

\* ------------------------------------------------------------------ bounds
MaxFollowers == 2
MaxOffset == 2
MaxTerm == 2
MaxRounds == 2

\* ------------------------------------------------------------- identities
\* _ptr->_self: the leader's own vnode; followers are 1..MaxFollowers.
Self == 0
Followers == 1..MaxFollowers

\* model::offset{} : the default-constructed offset, below every log offset.
UnsetOffset == 0 - 1

\* log.get_term(o) for an offset the log does not hold.
NoTerm == 0 - 1

VARIABLES
    \* ---- the round's inputs (constructor arguments, consensus config)
    voters,             \* _ptr->config(): the voter set iterated by for_each_broker_id
    meta,               \* _meta: [prev_log_index, term]
    is_flush_required,  \* _is_flush_required
    batch_last,         \* last offset of the batch handed to the constructor
    followers_seq,      \* _followers_seq: follower -> request sequence
    earlier,            \* follower -> what the round before this one did with it
    \* ---- replicate_entries_stm fields
    batches,            \* _batches: "held" | "moved" (inside foreign_share_n) | "reset"
    share_mutex,        \* _share_mutex: set of holders (empty or one voter)
    units,              \* _units: "none" | "held" | "released"
    append_result,      \* _append_result: [present, has_error, last_offset, last_term]
    dirty_offset,       \* _dirty_offset
    dirty_writes,       \* number of assignments to _dirty_offset (history)
    initial_committed_offset, \* _initial_committed_offset
    hb_guards,          \* _hb_guards: voter -> [installed, unsuppressed (calls)]
    dispatch_sem,       \* _dispatch_sem: available permits
    requests_count,     \* _requests_count
    req_bg,             \* _req_bg: [count, closed]
    \* ---- control state of the coroutines and continuations
    apply_pc, apply_ret, todo,
    fpc, freply,        \* per follower dispatch position and reply
    self_pc, self_reply,
    cleanup_pc,
    wfm_pc, wfm_ret, appended,
    sd_pc,
    \* ---- consensus (environment) state
    fstats,             \* _ptr->_fstats: follower -> follower_index_metadata
    commit_index,       \* _ptr->_commit_index
    term,               \* _ptr->term()
    log_term,           \* _ptr->_log->get_term(o) at the batch's last offset
    cv_broken,          \* _commit_index_updated broken
    last_quorum_replicated_index, visibility_upper_bound_index,
    last_write_consistency_level,
    flush_requested,    \* _ptr->flush_log() was called by this round
    \* ---- history of what the round did, per voter
    permits,            \* voter -> number of _dispatch_sem.signal() of its dispatch
    rpc,                \* follower -> [issued, dirty] append_entries calls
    routed,             \* voter -> [calls, reply, seq, dirty] process_append_entries_reply
    probe_errors,       \* get_probe().replicate_request_error() calls
    broken_in_wait,     \* the condition variable was broken with the waiter queued
    fatal               \* "none" | the vassert / undefined behaviour that ended the process

inputs == <<voters, meta, is_flush_required, batch_last, followers_seq, earlier>>
stm == <<batches, share_mutex, units, append_result, dirty_offset, dirty_writes,
         initial_committed_offset, hb_guards, dispatch_sem, requests_count, req_bg>>
ctl == <<apply_pc, apply_ret, todo, fpc, freply, self_pc, self_reply, cleanup_pc,
         wfm_pc, wfm_ret, appended, sd_pc>>
env == <<fstats, commit_index, term, log_term, cv_broken,
         last_quorum_replicated_index, visibility_upper_bound_index,
         last_write_consistency_level, flush_requested>>
hist == <<permits, rpc, routed, probe_errors, broken_in_wait, fatal>>
vars == <<inputs, stm, ctl, env, hist>>

Voters == {Self} \cup Followers

\* ------------------------------------------------------------ input sets
\* follower_index_metadata as the skip decision reads it.  fresh: the
\* follower's last_received_reply_timestamp is not older than
\* now - _replicate_append_timeout.
FollowerMeta(in_stats, learner, fresh, eo) ==
    [in_stats |-> in_stats, is_learner |-> learner, fresh |-> fresh,
     expected_log_end_offset |-> eo, last_sent_prev |-> UnsetOffset,
     append_stamped |-> FALSE, units_out |-> 0]

\* The follower states a round is started with: in sync, silent for longer
\* than the timeout, and not at the batch's start.
FollowerProfiles(prev) ==
    { FollowerMeta(TRUE, FALSE, TRUE, prev),
      FollowerMeta(TRUE, FALSE, FALSE, prev),
      FollowerMeta(TRUE, FALSE, TRUE, prev + 1) }

NoAppendResult ==
    [present |-> FALSE, has_error |-> FALSE,
     last_offset |-> UnsetOffset, last_term |-> NoTerm]

NoRouted == [calls |-> 0, reply |-> "none", seq |-> 0, dirty |-> UnsetOffset]
NoRpc == [issued |-> 0, dirty |-> UnsetOffset]
NoAppended == [offset |-> UnsetOffset, term |-> NoTerm]

\* No vnode.
NoNode == 0 - 1

\* The result of flush_log before the flush step has ended.  flush_threw
\* keeps what the awaited flush future did.
NoSelfReply ==
    [kind |-> "none", node_id |-> NoNode, target_node_id |-> NoNode,
     dirty |-> UnsetOffset, flushed |-> UnsetOffset, flush_threw |-> FALSE]

\* result<replicate_result> (or what left the coroutine instead of one).
Ret(kind, last_offset) == [kind |-> kind, last_offset |-> last_offset]
NoRet == Ret("none", UnsetOffset)

\* A voter that _fstats has no entry for.
NotInStats(prev) == FollowerMeta(FALSE, FALSE, TRUE, prev)

\* Every follower state the skip decision tells apart: learner or voter,
\* heard of lately or not, at the batch's start or not, and no entry.
AllFollowerProfiles(prev) ==
    { FollowerMeta(TRUE, l, fr, eo) :
        l \in BOOLEAN, fr \in BOOLEAN, eo \in {prev, prev + 1} }
    \cup {NotInStats(prev)}

\* The state after construction, for followers drawn from `profiles` and
\* request sequences drawn from `seqs`.
RoundInit(profiles, seqs) ==
    /\ \E k \in 0..MaxFollowers : voters = {Self} \cup (1..k)
    /\ meta = [prev_log_index |-> 0, term |-> 1]
    /\ batch_last = MaxOffset
    /\ commit_index = meta.prev_log_index
    /\ fstats \in [Followers -> profiles \cup {NotInStats(meta.prev_log_index)}]
    /\ \A f \in voters \ {Self} : fstats[f] \in profiles
    /\ \A f \in Followers \ voters :
         fstats[f] = NotInStats(meta.prev_log_index)
    /\ term = meta.term
    /\ log_term = NoTerm
    /\ is_flush_required \in BOOLEAN
    /\ followers_seq \in [Followers -> seqs \cup {1}]
    /\ \A f \in voters \ {Self} : followers_seq[f] \in seqs
    /\ \A f \in Followers \ voters : followers_seq[f] = 1
    /\ earlier = [f \in Followers |-> "none"]
    /\ batches = "held"
    /\ share_mutex = {}
    /\ units = "none"
    /\ append_result = NoAppendResult
    /\ dirty_offset = UnsetOffset
    /\ dirty_writes = 0
    /\ initial_committed_offset = UnsetOffset
    /\ hb_guards = [n \in Voters |-> [installed |-> FALSE, unsuppressed |-> 0]]
    /\ dispatch_sem = 0
    /\ requests_count = 0
    /\ req_bg = [count |-> 0, closed |-> FALSE]
    /\ apply_pc = "init" /\ apply_ret = NoRet /\ todo = {}
    /\ fpc = [f \in Followers |-> "idle"]
    /\ freply = [f \in Followers |-> "none"]
    /\ self_pc = "idle" /\ self_reply = NoSelfReply
    /\ cleanup_pc = "idle"
    /\ wfm_pc = "idle" /\ wfm_ret = NoRet /\ appended = NoAppended
    /\ sd_pc = "idle"
    /\ cv_broken = FALSE
    /\ last_quorum_replicated_index = commit_index
    /\ visibility_upper_bound_index = commit_index
    /\ last_write_consistency_level = "none"
    /\ flush_requested = FALSE
    /\ permits = [n \in Voters |-> 0]
    /\ rpc = [f \in Followers |-> NoRpc]
    /\ routed = [n \in Voters |-> NoRouted]
    /\ probe_errors = 0
    /\ broken_in_wait = FALSE
    /\ fatal = "none"

\* A round among established voters: every follower has a peer-stats
\* entry and has been sent to before.
Init == RoundInit(FollowerProfiles(0), {1})

\* A round over every kind of peer, first requests included.
ApplyInit == RoundInit(AllFollowerProfiles(0), {0, 1})

\* The peers of a leader that has appended nothing past prev yet: a
\* follower is expected at prev, or its expected log end offset was reset.
SettledProfiles(prev) ==
    { FollowerMeta(TRUE, l, fr, eo) :
        l \in BOOLEAN, fr \in BOOLEAN, eo \in {prev, UnsetOffset} }

\* The first of a sequence of rounds on one leader.
RoundsInit == RoundInit(SettledProfiles(0), {0, 1})

Running == fatal = "none"

\* ------------------------------------------------------- pure functions
\* follower_index_metadata::is_first_request: no request was sent yet.
is_first_request(seq) == seq = 0

\* Mutant: the expected log end offset is not compared.
should_skip_only_silent(id) ==
    IF id \in Followers /\ fstats[id].in_stats
    THEN IF ~fstats[id].is_learner /\ is_first_request(followers_seq[id])
         THEN FALSE
         ELSE ~fstats[id].fresh
    ELSE FALSE

\* Mutant: a learner is exempt from the checks as a first request is.
should_skip_learner_exempt(id) ==
    IF id \in Followers /\ fstats[id].in_stats
    THEN IF fstats[id].is_learner \/ is_first_request(followers_seq[id])
         THEN FALSE
         ELSE IF ~fstats[id].fresh
              THEN TRUE
              ELSE fstats[id].expected_log_end_offset # meta.prev_log_index
    ELSE FALSE

\* Mutant: a voter without a peer-stats entry is skipped.
should_skip_not_in_stats(id) ==
    IF id \in Followers /\ fstats[id].in_stats
    THEN IF ~fstats[id].is_learner /\ is_first_request(followers_seq[id])
         THEN FALSE
         ELSE IF ~fstats[id].fresh
              THEN TRUE
              ELSE fstats[id].expected_log_end_offset # meta.prev_log_index
    ELSE id \in Followers

\* should_skip_follower_request: TRUE = do not send to this voter.
should_skip_follower_request(id) ==
    IF id \in Followers /\ fstats[id].in_stats
    THEN IF ~fstats[id].is_learner /\ is_first_request(followers_seq[id])
         THEN FALSE
         ELSE IF ~fstats[id].fresh
              THEN TRUE
              ELSE fstats[id].expected_log_end_offset # meta.prev_log_index
    ELSE FALSE

\* result<...>::has_error() of a routed reply: `!reply` in dispatch_one.
IsErrorReply(kind) ==
    kind \in {"rpc_error", "target_mismatch", "dispatch_error", "flush_failed"}

\* Mutant: a failed leader flush becomes the round's result.
build_result_after_flush(ar) ==
    IF ar.has_error THEN Ret("leader_append_failed", UnsetOffset)
    ELSE IF self_reply.kind = "flush_failed"
         THEN Ret("leader_flush_failed", UnsetOffset)
         ELSE Ret("success", ar.last_offset)

\* build_replicate_result: the vassert on presence is the caller's guard.
build_replicate_result(ar) ==
    IF ar.has_error THEN Ret("leader_append_failed", UnsetOffset)
    ELSE Ret("success", ar.last_offset)

\* `!_append_result`: _append_result holds a result (optional-like; it is
\* dereferenced with -> to reach has_error()/value()), so the test is for
\* presence, not for success.
append_result_missing(ar) == ~ar.present

Signal(n) ==
    /\ dispatch_sem' = dispatch_sem + 1
    /\ permits' = [permits EXCEPT ![n] = @ + 1]

GateEnter == req_bg' = [req_bg EXCEPT !.count = @ + 1]
GateLeave == req_bg' = [req_bg EXCEPT !.count = @ - 1]

Unsuppress(n) ==
    hb_guards' = [hb_guards EXCEPT ![n].unsuppressed = @ + 1]

\* ------------------------------------------------------------------ apply
\* Mutant: the guards are not installed before the self append.
suppress_none == hb_guards

\* The first for_each_broker_id of apply: a heartbeat guard for every
\* voter but the leader itself.
suppress_heartbeats ==
    [n \in Voters |->
       IF n \in voters /\ n # Self
       THEN [installed |-> TRUE, unsuppressed |-> 0]
       ELSE hb_guards[n]]

\* apply up to its first suspension: heartbeat guards, _units, and
\* append_to_self -> share_batches taking the mutex and moving _batches
\* into foreign_share_n.
ApplyStart ==
    /\ Running /\ apply_pc = "init"
    /\ hb_guards' = suppress_heartbeats
    /\ units' = "held"
    /\ share_mutex' = {Self}
    /\ batches' = "moved"
    /\ apply_pc' = "share"
    /\ UNCHANGED <<inputs, env, hist, append_result, dirty_offset, dirty_writes,
                   initial_committed_offset, dispatch_sem, requests_count, req_bg,
                   apply_ret, todo, fpc, freply, self_pc, self_reply, cleanup_pc,
                   wfm_pc, wfm_ret, appended, sd_pc>>

LeaderAppendFailed ==
    [present |-> TRUE, has_error |-> TRUE,
     last_offset |-> UnsetOffset, last_term |-> NoTerm]

\* share_batches of the self append finishes; on success the first
\* continuation of append_to_self sets the consistency level and calls
\* disk_append, on failure handle_exception yields leader_append_failed.
SelfShareDone ==
    /\ Running /\ apply_pc = "share"
    /\ share_mutex' = {}
    /\ \E ok \in BOOLEAN :
         IF ok
         THEN /\ batches' = "held"
              /\ last_write_consistency_level' =
                   (IF is_flush_required THEN "quorum_ack" ELSE "leader_ack")
              /\ apply_pc' = "disk_append"
              /\ UNCHANGED append_result
         ELSE /\ append_result' = LeaderAppendFailed
              /\ apply_pc' = "appended"
              /\ UNCHANGED <<batches, last_write_consistency_level>>
    /\ UNCHANGED <<inputs, hist, units, dirty_offset, dirty_writes,
                   initial_committed_offset, hb_guards, dispatch_sem,
                   requests_count, req_bg, apply_ret, todo, fpc, freply, self_pc,
                   self_reply, cleanup_pc, wfm_pc, wfm_ret, appended, sd_pc,
                   fstats, commit_index, term, log_term, cv_broken,
                   last_quorum_replicated_index, visibility_upper_bound_index,
                   flush_requested>>

Max(a, b) == IF a >= b THEN a ELSE b

\* disk_append completes.  Success: the log holds the batch at batch_last
\* in the leader's term, the quorum index follows when flush is required,
\* and the second continuation of append_to_self moves the visibility
\* upper bound.  Failure: leader_append_failed.
DiskAppendDone ==
    /\ Running /\ apply_pc = "disk_append"
    /\ apply_pc' = "appended"
    /\ \E ok \in BOOLEAN :
         IF ok
         THEN LET lqri == IF is_flush_required THEN batch_last
                          ELSE last_quorum_replicated_index
              IN /\ append_result' = [present |-> TRUE, has_error |-> FALSE,
                                      last_offset |-> batch_last,
                                      last_term |-> meta.term]
                 /\ log_term' = meta.term
                 /\ last_quorum_replicated_index' = lqri
                 /\ visibility_upper_bound_index' =
                      (IF commit_index >= lqri
                       THEN Max(visibility_upper_bound_index, batch_last)
                       ELSE visibility_upper_bound_index)
         ELSE /\ append_result' = LeaderAppendFailed
              /\ UNCHANGED <<log_term, last_quorum_replicated_index,
                             visibility_upper_bound_index>>
    /\ UNCHANGED <<inputs, hist, batches, share_mutex, units, dirty_offset,
                   dirty_writes, initial_committed_offset, hb_guards, dispatch_sem,
                   requests_count, req_bg, apply_ret, todo, fpc, freply, self_pc,
                   self_reply, cleanup_pc, wfm_pc, wfm_ret, appended, sd_pc,
                   fstats, commit_index, term, cv_broken,
                   last_write_consistency_level, flush_requested>>

\* result<T>::value() of a result that holds an error: std::system_error
\* is thrown and leaves the coroutine as its failed future.
value_of_error == Ret("threw_system_error", UnsetOffset)

\* Mutant: the batch's start is published instead of its last offset.
published_prev_log_index(ar) == meta.prev_log_index

\* `_dirty_offset = _append_result->value().last_offset`.
published_dirty_offset(ar) == ar.last_offset

\* apply resumes after co_await append_to_self(): the presence test, then
\* _append_result->value(), which throws on a result that holds an error
\* (the exception leaves the coroutine), then _dirty_offset and
\* _initial_committed_offset.
ApplyResume ==
    /\ Running /\ apply_pc = "appended"
    /\ IF append_result_missing(append_result)
       THEN /\ fatal' = "vassert_append_result"
            /\ UNCHANGED <<apply_pc, apply_ret, dirty_offset, dirty_writes,
                           initial_committed_offset, todo>>
       ELSE IF append_result.has_error
       THEN /\ apply_pc' = "done"
            /\ apply_ret' = value_of_error
            /\ UNCHANGED <<fatal, dirty_offset, dirty_writes,
                           initial_committed_offset, todo>>
       ELSE /\ dirty_offset' = published_dirty_offset(append_result)
            /\ dirty_writes' = dirty_writes + 1
            /\ initial_committed_offset' = commit_index
            /\ todo' = voters
            /\ apply_pc' = "dispatch"
            /\ UNCHANGED <<fatal, apply_ret>>
    /\ UNCHANGED <<inputs, env, batches, share_mutex, units, append_result,
                   hb_guards, dispatch_sem, requests_count, req_bg, fpc, freply,
                   self_pc, self_reply, cleanup_pc, wfm_pc, wfm_ret, appended,
                   sd_pc, permits, rpc, routed, probe_errors, broken_in_wait>>

\* Mutant: the leader's own slot is not counted.
count_followers_only(v) ==
    IF v = Self THEN requests_count ELSE requests_count + 1

\* ++_requests_count for a voter that is not skipped.
count_request(v) == requests_count + 1

\* Mutant: the peer stats are left to the handling of the reply.
peer_stats_unwritten(v) == fstats

\* The peer-stats write of a dispatched follower: expected_log_end_offset
\* and last_sent_protocol_meta, for a follower _fstats has an entry for.
sent_peer_stats(v) ==
    IF v # Self /\ fstats[v].in_stats
    THEN [fstats EXCEPT ![v].expected_log_end_offset = dirty_offset,
                        ![v].last_sent_prev = meta.prev_log_index]
    ELSE fstats

\* One turn of the second for_each_broker_id of apply, for voter v: skip
\* (guard released at once), or peer stats, ++_requests_count and
\* dispatch_one(v) up to its first suspension.  dispatch_one enters _req_bg
\* (a closed gate swallows the dispatch); for the leader's slot flush_log
\* asks for the flush when required and signals _dispatch_sem before it
\* returns; for a follower share_batches queues on _share_mutex.
ApplyVisit(v) ==
    /\ Running /\ apply_pc = "dispatch" /\ v \in todo
    /\ todo' = todo \ {v}
    /\ IF should_skip_follower_request(v)
       THEN /\ Unsuppress(v)
            /\ fpc' = [fpc EXCEPT ![v] = "skipped"]
            /\ UNCHANGED <<fstats, requests_count, req_bg, self_pc,
                           flush_requested, dispatch_sem, permits>>
       ELSE /\ fstats' = sent_peer_stats(v)
            /\ requests_count' = count_request(v)
            /\ UNCHANGED hb_guards
            /\ IF req_bg.closed
               THEN UNCHANGED <<req_bg, fpc, self_pc, flush_requested,
                                dispatch_sem, permits>>
               ELSE /\ GateEnter
                    /\ IF v = Self
                       THEN /\ flush_requested' = is_flush_required
                            /\ Signal(Self)
                            /\ self_pc' = "flushing"
                            /\ UNCHANGED fpc
                       ELSE /\ fpc' = [fpc EXCEPT ![v] = "want_mutex"]
                            /\ UNCHANGED <<self_pc, flush_requested,
                                           dispatch_sem, permits>>
    /\ UNCHANGED <<inputs, batches, share_mutex, units, append_result,
                   dirty_offset, dirty_writes, initial_committed_offset,
                   apply_pc, apply_ret, freply, self_reply, cleanup_pc, wfm_pc,
                   wfm_ret, appended, sd_pc, commit_index, term, log_term,
                   cv_broken, last_quorum_replicated_index,
                   visibility_upper_bound_index, last_write_consistency_level,
                   rpc, routed, probe_errors, broken_in_wait, fatal>>

\* The end of apply: the cleanup task is spawned inside _req_bg and the
\* caller gets build_replicate_result().
ApplyFinish ==
    /\ Running /\ apply_pc = "dispatch" /\ todo = {}
    /\ IF req_bg.closed
       THEN UNCHANGED <<req_bg, cleanup_pc>>
       ELSE GateEnter /\ cleanup_pc' = "waiting"
    /\ apply_ret' = build_replicate_result(append_result)
    /\ apply_pc' = "done"
    /\ UNCHANGED <<inputs, env, hist, batches, share_mutex, units,
                   append_result, dirty_offset, dirty_writes,
                   initial_committed_offset, hb_guards, dispatch_sem,
                   requests_count, todo, fpc, freply, self_pc, self_reply,
                   wfm_pc, wfm_ret, appended, sd_pc>>

\* Mutant: the cleanup waits for a single permit (wait() without a count).
barrier_single_permit == IF requests_count > 0 THEN 1 ELSE requests_count

\* Mutant: the cleanup waits for one permit less than were promised.
barrier_one_short == IF requests_count > 0 THEN requests_count - 1 ELSE 0

\* The number of permits the cleanup task waits for.
barrier_permits == requests_count

\* The cleanup task: _dispatch_sem.wait(_requests_count), then
\* _batches.reset() and _units.release(), then the gate is left.
Cleanup ==
    /\ Running /\ cleanup_pc = "waiting"
    /\ dispatch_sem >= barrier_permits
    /\ dispatch_sem' = dispatch_sem - barrier_permits
    /\ batches' = "reset"
    /\ units' = "released"
    /\ GateLeave
    /\ cleanup_pc' = "done"
    /\ UNCHANGED <<inputs, env, hist, share_mutex, append_result, dirty_offset,
                   dirty_writes, initial_committed_offset, hb_guards,
                   requests_count, apply_pc, apply_ret, todo, fpc, freply,
                   self_pc, self_reply, wfm_pc, wfm_ret, appended, sd_pc>>

\* -------------------------------------------------- leader slot: flush_log
\* The continuation of dispatch_one: probe on an error result, then
\* process_append_entries_reply(id, reply, seq, _dirty_offset); the gate is
\* left when the continuation ends.
Route(n, kind, seq) ==
    /\ probe_errors' = probe_errors + (IF IsErrorReply(kind) THEN 1 ELSE 0)
    /\ routed' = [routed EXCEPT ![n] = [calls |-> @.calls + 1, reply |-> kind,
                                        seq |-> seq, dirty |-> dirty_offset]]
    /\ GateLeave

\* Mutant: flush_log without its handle_exception; the success reply is
\* built whatever the flush did.
flush_reply_without_handler(ok) ==
    [kind |-> "ok", node_id |-> Self, target_node_id |-> Self,
     dirty |-> dirty_offset, flushed |-> dirty_offset, flush_threw |-> ~ok]

\* flush_log's reply, built from _dirty_offset once the flush is over (or
\* at once when none was asked for); a failed flush gives
\* leader_flush_failed.
flush_reply(ok) ==
    IF ok
    THEN [kind |-> "ok", node_id |-> Self, target_node_id |-> Self,
          dirty |-> dirty_offset, flushed |-> dirty_offset,
          flush_threw |-> FALSE]
    ELSE [NoSelfReply EXCEPT !.kind = "flush_failed", !.flush_threw = TRUE]

\* The flush of the leader's slot ends: the continuation of flush_log
\* builds the reply and the continuation of dispatch_one routes it.
SelfFlushDone ==
    /\ Running /\ self_pc = "flushing"
    /\ \E ok \in (IF is_flush_required THEN BOOLEAN ELSE {TRUE}) :
         /\ self_reply' = flush_reply(ok)
         /\ Route(Self, flush_reply(ok).kind, 0)
    /\ self_pc' = "done"
    /\ UNCHANGED <<inputs, env, batches, share_mutex, units, append_result,
                   dirty_offset, dirty_writes, initial_committed_offset,
                   hb_guards, dispatch_sem, requests_count, apply_pc, apply_ret,
                   todo, fpc, freply, cleanup_pc, wfm_pc, wfm_ret, appended,
                   sd_pc, permits, rpc, broken_in_wait, fatal>>

\* ------------------------------------------- follower: dispatch_single_retry
\* share_batches: the mutex is taken and _batches.value() is moved into
\* foreign_share_n.  An empty _batches throws (the dispatch ends with an
\* exception); a holder that an earlier failed share left moved-from is
\* used after the move.
FollowerShareAcquire(f) ==
    /\ Running /\ fpc[f] = "want_mutex" /\ share_mutex = {}
    /\ \/ /\ batches = "held"
          /\ batches' = "moved"
          /\ share_mutex' = {f}
          /\ fpc' = [fpc EXCEPT ![f] = "cloning"]
          /\ UNCHANGED <<req_bg, fatal>>
       \/ /\ batches = "reset"
          /\ fpc' = [fpc EXCEPT ![f] = "aborted"]
          /\ GateLeave
          /\ UNCHANGED <<batches, share_mutex, fatal>>
       \/ /\ batches = "moved"
          /\ \/ /\ fpc' = [fpc EXCEPT ![f] = "aborted"]
                /\ GateLeave
                /\ UNCHANGED fatal
             \/ /\ fatal' = "use_after_move_batches"
                /\ UNCHANGED <<fpc, req_bg>>
          /\ UNCHANGED <<batches, share_mutex>>
    /\ UNCHANGED <<inputs, env, units, append_result, dirty_offset,
                   dirty_writes, initial_committed_offset, hb_guards,
                   dispatch_sem, requests_count, apply_pc, apply_ret, todo,
                   freply, self_pc, self_reply, cleanup_pc, wfm_pc, wfm_ret,
                   appended, sd_pc, permits, rpc, routed, probe_errors,
                   broken_in_wait>>

\* foreign_share_n finishes.  Success: one clone is kept in _batches, the
\* other goes to send_append_entries_request, which stamps the follower
\* and asks for its append-entries unit.  Failure: share_batches throws,
\* send_append_entries_request is never called, and the exception leaves
\* dispatch_one through with_gate.
FollowerShareDone(f) ==
    /\ Running /\ fpc[f] = "cloning"
    /\ share_mutex' = {}
    /\ \/ /\ batches' = "held"
          /\ fstats' = [fstats EXCEPT ![f].append_stamped = fstats[f].in_stats]
          /\ fpc' = [fpc EXCEPT ![f] = "acquire_unit"]
          /\ UNCHANGED req_bg
       \/ /\ fpc' = [fpc EXCEPT ![f] = "aborted"]
          /\ GateLeave
          /\ UNCHANGED <<batches, fstats>>
    /\ UNCHANGED <<inputs, hist, units, append_result, dirty_offset,
                   dirty_writes, initial_committed_offset, hb_guards,
                   dispatch_sem, requests_count, apply_pc, apply_ret, todo,
                   freply, self_pc, self_reply, cleanup_pc, wfm_pc, wfm_ret,
                   appended, sd_pc, commit_index, term, log_term, cv_broken,
                   last_quorum_replicated_index, visibility_upper_bound_index,
                   last_write_consistency_level, flush_requested>>

\* Mutant: nothing is signalled when the lambda returns.
signal_left_out(f) == UNCHANGED <<dispatch_sem, permits>>

\* The deferred signal of send_append_entries_request: one permit when the
\* then_wrapped lambda returns.
signal_dispatch_sem(f) == Signal(f)

\* The then_wrapped continuation of get_append_entries_unit: the deferred
\* _dispatch_sem.signal() runs when the lambda returns, that is after the
\* failure was turned into append_entries_dispatch_error, or after
\* append_entries was called.  With a failed unit the error passes
\* handle_exception and the finally that unsuppresses heartbeats, and
\* dispatch_one routes it.
FollowerUnit(f) ==
    /\ Running /\ fpc[f] = "acquire_unit"
    /\ signal_dispatch_sem(f)
    /\ \/ /\ freply' = [freply EXCEPT ![f] = "dispatch_error"]
          /\ Unsuppress(f)
          /\ Route(f, "dispatch_error", followers_seq[f])
          /\ fpc' = [fpc EXCEPT ![f] = "done"]
          /\ UNCHANGED <<rpc, fstats>>
       \/ /\ rpc' = [rpc EXCEPT ![f] = [issued |-> @.issued + 1,
                                       dirty |-> dirty_offset]]
          /\ fstats' = [fstats EXCEPT ![f].units_out = @ + 1]
          /\ fpc' = [fpc EXCEPT ![f] = "in_flight"]
          /\ UNCHANGED <<freply, hb_guards, routed, probe_errors, req_bg>>
    /\ UNCHANGED <<inputs, batches, share_mutex, units, append_result,
                   dirty_offset, dirty_writes, initial_committed_offset,
                   requests_count, apply_pc, apply_ret, todo, self_pc,
                   self_reply, cleanup_pc, wfm_pc, wfm_ret, appended, sd_pc,
                   commit_index, term, log_term, cv_broken,
                   last_quorum_replicated_index, visibility_upper_bound_index,
                   last_write_consistency_level, flush_requested,
                   broken_in_wait, fatal>>

\* What the transport hands back for an issued RPC.
RpcOutcomes == {"ok", "nack", "rpc_error", "wrong_target", "exception"}

\* validate_reply_target_node and handle_exception applied to an outcome.
ReplyOf(outcome) ==
    CASE outcome = "wrong_target" -> "target_mismatch"
      [] outcome = "exception" -> "dispatch_error"
      [] OTHER -> outcome

\* The RPC ends: target check, the per-follower unit goes back, an
\* exception becomes append_entries_dispatch_error, heartbeats resume, and
\* dispatch_one routes the result.
FollowerReply(f) ==
    /\ Running /\ fpc[f] = "in_flight"
    /\ \E outcome \in RpcOutcomes :
         /\ freply' = [freply EXCEPT ![f] = ReplyOf(outcome)]
         /\ Route(f, ReplyOf(outcome), followers_seq[f])
    /\ fstats' = [fstats EXCEPT ![f].units_out = @ - 1]
    /\ Unsuppress(f)
    /\ fpc' = [fpc EXCEPT ![f] = "done"]
    /\ UNCHANGED <<inputs, batches, share_mutex, units, append_result,
                   dirty_offset, dirty_writes, initial_committed_offset,
                   dispatch_sem, requests_count, apply_pc, apply_ret, todo,
                   self_pc, self_reply, cleanup_pc, wfm_pc, wfm_ret, appended,
                   sd_pc, commit_index, term, log_term, cv_broken,
                   last_quorum_replicated_index, visibility_upper_bound_index,
                   last_write_consistency_level, flush_requested, permits, rpc,
                   broken_in_wait, fatal>>

\* ------------------------------------------------------ wait_for_majority
\* Mutant: the truncation branch without the commit index snapshot.
stop_cond_without_snapshot(appended_offset, appended_term) ==
    \/ commit_index >= appended_offset
    \/ term > appended_term /\ log_term # appended_term

\* stop_cond of wait_for_majority, over the captured offset and term.
stop_cond(appended_offset, appended_term) ==
    LET committed == commit_index >= appended_offset
        truncated == /\ term > appended_term
                     /\ commit_index > initial_committed_offset
                     /\ log_term # appended_term
    IN committed \/ truncated

\* Mutant: the term of the log entry is not looked at.
process_result_without_term_check(appended_offset, appended_term) ==
    IF ~(appended_offset <= commit_index)
    THEN Ret("vassert", UnsetOffset)
    ELSE build_replicate_result(append_result)

\* Mutant: a committed offset is a success before the log is asked.
process_result_commit_first(appended_offset, appended_term) ==
    IF appended_offset <= commit_index
    THEN build_replicate_result(append_result)
    ELSE IF appended_term # term /\ log_term # appended_term
         THEN Ret("replicated_entry_truncated", UnsetOffset)
         ELSE Ret("vassert", UnsetOffset)

\* process_result: "vassert" stands for the failed vassert on
\* appended_offset <= _commit_index.
process_result(appended_offset, appended_term) ==
    IF appended_term # term /\ log_term # appended_term
    THEN Ret("replicated_entry_truncated", UnsetOffset)
    ELSE IF ~(appended_offset <= commit_index)
         THEN Ret("vassert", UnsetOffset)
         ELSE build_replicate_result(append_result)

\* Mutant: the catch falls through to the result of the self append.
on_broken_returns_append_result == build_replicate_result(append_result)

\* What wait_for_majority returns from its catch of
\* broken_condition_variable.
on_broken_condition_variable == Ret("shutting_down", UnsetOffset)

\* wait_for_majority up to its first suspension: the presence test,
\* _append_result->value() (throws on a result that holds an error), then
\* _commit_index_updated.wait(stop_cond), which tests the predicate before
\* it queues the waiter; a broken condition variable fails a new wait.
WfmStart ==
    /\ Running /\ apply_pc = "done" /\ wfm_pc = "idle"
    /\ IF append_result_missing(append_result)
       THEN /\ fatal' = "vassert_append_result"
            /\ UNCHANGED <<wfm_pc, wfm_ret, appended>>
       ELSE IF append_result.has_error
       THEN /\ wfm_ret' = value_of_error
            /\ wfm_pc' = "done"
            /\ UNCHANGED <<fatal, appended>>
       ELSE /\ appended' = [offset |-> append_result.last_offset,
                            term |-> append_result.last_term]
            /\ IF stop_cond(append_result.last_offset, append_result.last_term)
               THEN wfm_pc' = "resolved" /\ UNCHANGED wfm_ret
               ELSE IF cv_broken
               THEN wfm_pc' = "done" /\ wfm_ret' = on_broken_condition_variable
               ELSE wfm_pc' = "waiting" /\ UNCHANGED wfm_ret
            /\ UNCHANGED fatal
    /\ UNCHANGED <<inputs, stm, env, apply_pc, apply_ret, todo, fpc, freply,
                   self_pc, self_reply, cleanup_pc, sd_pc, permits, rpc, routed,
                   probe_errors, broken_in_wait>>

\* _commit_index_updated is signalled for another reason than a new commit
\* index: the queued waiter is taken off the queue and its continuation is
\* scheduled.
WfmWake ==
    /\ Running /\ wfm_pc = "waiting"
    /\ wfm_pc' = "woken"
    /\ UNCHANGED <<inputs, stm, env, hist, apply_pc, apply_ret, todo, fpc,
                   freply, self_pc, self_reply, cleanup_pc, wfm_ret, appended,
                   sd_pc>>

\* The woken waiter tests stop_cond again and either ends the wait or
\* waits again (which fails at once on a broken condition variable).
WfmEval ==
    /\ Running /\ wfm_pc = "woken"
    /\ IF stop_cond(appended.offset, appended.term)
       THEN wfm_pc' = "resolved" /\ UNCHANGED wfm_ret
       ELSE IF cv_broken
       THEN wfm_pc' = "done" /\ wfm_ret' = on_broken_condition_variable
       ELSE wfm_pc' = "waiting" /\ UNCHANGED wfm_ret
    /\ UNCHANGED <<inputs, stm, env, hist, apply_pc, apply_ret, todo, fpc,
                   freply, self_pc, self_reply, cleanup_pc, appended, sd_pc>>

\* The coroutine resumes after the wait ended normally: process_result.
WfmProcess ==
    /\ Running /\ wfm_pc = "resolved"
    /\ LET r == process_result(appended.offset, appended.term)
       IN IF r.kind = "vassert"
          THEN fatal' = "vassert_commit_index" /\ UNCHANGED <<wfm_pc, wfm_ret>>
          ELSE wfm_ret' = r /\ wfm_pc' = "done" /\ UNCHANGED fatal
    /\ UNCHANGED <<inputs, stm, env, apply_pc, apply_ret, todo, fpc, freply,
                   self_pc, self_reply, cleanup_pc, appended, sd_pc, permits,
                   rpc, routed, probe_errors, broken_in_wait>>

\* ------------------------------------------------------ wait_for_shutdown
\* _req_bg.close(): the gate is closed; the returned future resolves when
\* the gate's count is zero.  The owner calls it when wait_for_majority
\* has returned.
ShutdownCall ==
    /\ Running /\ wfm_pc = "done" /\ sd_pc = "idle"
    /\ req_bg' = [req_bg EXCEPT !.closed = TRUE]
    /\ sd_pc' = "closing"
    /\ UNCHANGED <<inputs, env, hist, batches, share_mutex, units,
                   append_result, dirty_offset, dirty_writes,
                   initial_committed_offset, hb_guards, dispatch_sem,
                   requests_count, apply_pc, apply_ret, todo, fpc, freply,
                   self_pc, self_reply, cleanup_pc, wfm_pc, wfm_ret, appended>>

\* Mutant: the future of close() is not awaited.
close_not_awaited == TRUE

\* The future of gate::close() resolves when nothing is inside the gate.
gate_drained == req_bg.count = 0

ShutdownResolve ==
    /\ Running /\ sd_pc = "closing"
    /\ gate_drained
    /\ sd_pc' = "done"
    /\ UNCHANGED <<inputs, stm, env, hist, apply_pc, apply_ret, todo, fpc,
                   freply, self_pc, self_reply, cleanup_pc, wfm_pc, wfm_ret,
                   appended>>

\* wait_for_shutdown called once more after its first future resolved:
\* _req_bg.close() on a gate that is closed already.  gate::close() asserts
\* that the gate was not closed before; where the assertion is compiled
\* out, the call replaces the gate's stop promise and, with a count of
\* zero, resolves.
ShutdownAgain ==
    /\ Running /\ sd_pc = "done"
    /\ \/ fatal' = "assert_gate_closed_twice" /\ UNCHANGED sd_pc
       \/ sd_pc' = "done_again" /\ UNCHANGED fatal
    /\ UNCHANGED <<inputs, stm, env, apply_pc, apply_ret, todo, fpc, freply,
                   self_pc, self_reply, cleanup_pc, wfm_pc, wfm_ret, appended,
                   permits, rpc, routed, probe_errors, broken_in_wait>>

\* ---------------------------------------------- consensus (environment)
\* The consensus layer is followed where the round reads it: between the
\* self append and the snapshot of the commit index in apply, and from the
\* return of apply to the return of wait_for_majority.  The dispatches in
\* between read no consensus state, so a change made during them is a
\* change made right after them.
EnvActive ==
    /\ Running
    /\ append_result.present /\ ~append_result.has_error
    /\ apply_pc \in {"appended", "done"}
    /\ wfm_pc # "done"

EnvUnchanged ==
    UNCHANGED <<inputs, stm, apply_pc, apply_ret, todo, fpc, freply, self_pc,
                self_reply, cleanup_pc, appended, sd_pc, fstats,
                last_quorum_replicated_index, visibility_upper_bound_index,
                last_write_consistency_level, flush_requested, permits, rpc,
                routed, probe_errors, fatal>>

\* The commit index only grows, and it covers the batch's last offset only
\* while the log holds an entry there.  The update broadcasts
\* _commit_index_updated, which takes a queued waiter off the queue.
EnvCommit ==
    /\ EnvActive
    /\ \E c \in (commit_index + 1)..MaxOffset :
         /\ (log_term = NoTerm => c < batch_last)
         /\ commit_index' = c
    /\ wfm_pc' = IF wfm_pc = "waiting" THEN "woken" ELSE wfm_pc
    /\ UNCHANGED <<term, log_term, cv_broken, wfm_ret, broken_in_wait>>
    /\ EnvUnchanged

\* The term only grows.
EnvTerm ==
    /\ EnvActive
    /\ \E t \in (term + 1)..MaxTerm : term' = t
    /\ UNCHANGED <<commit_index, log_term, cv_broken, wfm_pc, wfm_ret, broken_in_wait>>
    /\ EnvUnchanged

\* Under a newer term the uncommitted entry at the batch's last offset is
\* truncated (no entry), or replaced by an entry of another leader; an
\* entry of the batch's own term at that offset is the batch itself (log
\* matching), so the term there never returns to it.
EnvTruncate ==
    /\ EnvActive
    /\ term > meta.term
    /\ commit_index < batch_last
    /\ \E t \in ({NoTerm} \cup (1..term)) \ {meta.term, log_term} :
         log_term' = t
    /\ UNCHANGED <<commit_index, term, cv_broken, wfm_pc, wfm_ret, broken_in_wait>>
    /\ EnvUnchanged

\* Shutdown: _commit_index_updated.broken() fails the queued waiter, whose
\* coroutine resumes in the catch.
EnvBreak ==
    /\ EnvActive
    /\ ~cv_broken
    /\ cv_broken' = TRUE
    /\ IF wfm_pc = "waiting"
       THEN /\ wfm_pc' = "done"
            /\ wfm_ret' = on_broken_condition_variable
            /\ broken_in_wait' = TRUE
       ELSE UNCHANGED <<wfm_pc, wfm_ret, broken_in_wait>>
    /\ UNCHANGED <<commit_index, term, log_term>>
    /\ EnvUnchanged

\* ------------------------------------------------------------ the system
Next ==
    \/ ApplyStart
    \/ SelfShareDone
    \/ DiskAppendDone
    \/ ApplyResume
    \/ \E v \in Voters : ApplyVisit(v)
    \/ ApplyFinish
    \/ Cleanup
    \/ SelfFlushDone
    \/ \E f \in Followers : FollowerShareAcquire(f)
    \/ \E f \in Followers : FollowerShareDone(f)
    \/ \E f \in Followers : FollowerUnit(f)
    \/ \E f \in Followers : FollowerReply(f)
    \/ WfmStart
    \/ WfmWake
    \/ WfmEval
    \/ WfmProcess
    \/ ShutdownCall
    \/ ShutdownResolve
    \/ ShutdownAgain
    \/ EnvCommit
    \/ EnvTerm
    \/ EnvTruncate
    \/ EnvBreak

Spec == Init /\ [][Next]_vars

\* apply and its background tasks alone, over every kind of peer.
ApplyNext ==
    \/ ApplyStart
    \/ SelfShareDone
    \/ DiskAppendDone
    \/ ApplyResume
    \/ \E v \in Voters : ApplyVisit(v)
    \/ ApplyFinish
    \/ Cleanup
    \/ SelfFlushDone
    \/ \E f \in Followers : FollowerShareAcquire(f)
    \/ \E f \in Followers : FollowerShareDone(f)
    \/ \E f \in Followers : FollowerUnit(f)
    \/ \E f \in Followers : FollowerReply(f)

ApplySpec == ApplyInit /\ [][ApplyNext]_vars

\* What a round did with follower f, as the next round finds it.
EarlierOf(f) ==
    IF /\ fpc[f] = "skipped" /\ fstats[f].fresh
       /\ fstats[f].expected_log_end_offset # meta.prev_log_index
    THEN "skipped_for_offset"
    ELSE fpc[f]

\* The next round on the same leader: once apply has returned success, the
\* caller constructs the state machine of the next batch, which starts at
\* this round's _dirty_offset, with later request sequences.  _fstats is
\* the consensus object's and stays; its reply timestamps move with time.
\* The tasks the earlier round still has in flight write no field the new
\* round reads, and are followed no further.
NextRound ==
    /\ Running /\ apply_pc = "done"
    /\ append_result.present /\ ~append_result.has_error
    /\ meta.prev_log_index < (MaxRounds - 1) * MaxOffset
    /\ meta' = [meta EXCEPT !.prev_log_index = dirty_offset]
    /\ batch_last' = dirty_offset + MaxOffset
    /\ followers_seq' = [f \in Followers |-> 1]
    /\ earlier' = [f \in Followers |-> EarlierOf(f)]
    /\ \E fr \in [Followers -> BOOLEAN] :
         /\ \A f \in Followers \ voters : fr[f]
         /\ fstats' = [f \in Followers |->
                         [fstats[f] EXCEPT !.fresh = fr[f],
                                           !.append_stamped = FALSE,
                                           !.units_out = 0]]
    /\ log_term' = NoTerm
    /\ flush_requested' = FALSE
    /\ batches' = "held"
    /\ share_mutex' = {}
    /\ units' = "none"
    /\ append_result' = NoAppendResult
    /\ dirty_offset' = UnsetOffset
    /\ dirty_writes' = 0
    /\ initial_committed_offset' = UnsetOffset
    /\ hb_guards' = [n \in Voters |-> [installed |-> FALSE, unsuppressed |-> 0]]
    /\ dispatch_sem' = 0
    /\ requests_count' = 0
    /\ req_bg' = [count |-> 0, closed |-> FALSE]
    /\ apply_pc' = "init" /\ apply_ret' = NoRet /\ todo' = {}
    /\ fpc' = [f \in Followers |-> "idle"]
    /\ freply' = [f \in Followers |-> "none"]
    /\ self_pc' = "idle" /\ self_reply' = NoSelfReply
    /\ cleanup_pc' = "idle"
    /\ permits' = [n \in Voters |-> 0]
    /\ rpc' = [f \in Followers |-> NoRpc]
    /\ routed' = [n \in Voters |-> NoRouted]
    /\ probe_errors' = 0
    /\ UNCHANGED <<voters, is_flush_required, wfm_pc, wfm_ret, appended, sd_pc,
                   commit_index, term, cv_broken, last_quorum_replicated_index,
                   visibility_upper_bound_index, last_write_consistency_level,
                   broken_in_wait, fatal>>

\* Consecutive rounds of apply on one leader.
RoundsNext ==
    \/ ApplyNext
    \/ NextRound

RoundsSpec == RoundsInit /\ [][RoundsNext]_vars

\* ================================================================ claims
\* A dispatch task was started for voter n (dispatch_one entered the gate).
Started(n) ==
    IF n = Self THEN self_pc # "idle"
    ELSE fpc[n] \notin {"idle", "skipped"}

SelfAppendOk == append_result.present /\ ~append_result.has_error
SelfAppendFailed == append_result.present /\ append_result.has_error

\* C1: nothing of the dispatch (a started task, an RPC, a flush request, a
\* peer-stats write) exists before the self append succeeded and
\* _dirty_offset holds its last offset; _dirty_offset is written once, and
\* every RPC, synthesised self reply and routed reply sees that value.
C1_DispatchAfterSelfAppend ==
    /\ dirty_writes <= 1
    /\ \A n \in Voters :
         (\/ Started(n)
          \/ requests_count > 0
          \/ flush_requested
          \/ (n # Self /\ (rpc[n].issued > 0 \/ fstats[n].last_sent_prev # UnsetOffset)))
         => /\ SelfAppendOk
            /\ dirty_writes = 1
            /\ dirty_offset = append_result.last_offset
    /\ \A f \in Followers :
         rpc[f].issued > 0 => rpc[f].dirty = append_result.last_offset
    /\ self_reply.kind = "ok" => self_reply.dirty = append_result.last_offset
    /\ \A n \in Voters :
         routed[n].calls > 0 => routed[n].dirty = append_result.last_offset

C1_Witness ==
    /\ routed[Self].calls = 1 /\ self_reply.kind = "ok" /\ flush_requested
    /\ \E f \in Followers : rpc[f].issued = 1 /\ routed[f].calls = 1

\* C2: after a failed self append apply hands leader_append_failed to its
\* caller, and the round has no dispatch, no permit, _requests_count 0 and
\* no published _dirty_offset.
C2_ApplyReturnsAppendError ==
    (apply_pc = "done" /\ SelfAppendFailed)
    => /\ apply_ret.kind = "leader_append_failed"
       /\ \A n \in Voters : ~Started(n) /\ permits[n] = 0
       /\ requests_count = 0
       /\ dispatch_sem = 0
       /\ dirty_writes = 0

\* C3: after a failed self append wait_for_majority returns that same
\* leader_append_failed, without waiting, reading the result's value or
\* raising.
C3_WaitReturnsAppendError ==
    (wfm_pc # "idle" /\ SelfAppendFailed)
    => /\ wfm_pc = "done"
       /\ wfm_ret.kind = "leader_append_failed"
       /\ appended = NoAppended

C5_TruncationDecidedByLogTerm ==
    (wfm_pc = "done" /\ SelfAppendOk /\ wfm_ret.kind # "shutting_down"
       /\ term # meta.term)
    => IF log_term # meta.term
       THEN wfm_ret.kind = "replicated_entry_truncated"
       ELSE wfm_ret.kind = "success"

C5_Witness ==
    /\ wfm_ret.kind = "replicated_entry_truncated"
    /\ commit_index >= batch_last

\* C6: without shutdown the wait ends only in a state where the commit
\* index has reached the appended offset, or the term is newer, the commit
\* index is past the snapshot taken after the self append and the log's
\* term at the appended offset is another one; a term change alone never
\* ends it.
C6_WaitEndsOnlyOnStopCondition ==
    (wfm_pc = "resolved" \/ wfm_ret.kind \in {"success", "replicated_entry_truncated"})
    => \/ commit_index >= batch_last
       \/ /\ term > meta.term
          /\ commit_index > initial_committed_offset
          /\ log_term # meta.term

C6_Witness ==
    /\ wfm_pc = "waiting"
    /\ term > meta.term /\ log_term # meta.term
    /\ commit_index = initial_committed_offset

\* C7: a condition variable broken while the waiter is queued makes
\* wait_for_majority return shutting_down whatever the commit index and
\* term are, and the wait_for_shutdown that follows resolves only with
\* _req_bg drained.
C7_BrokenWaitShutsDown ==
    /\ broken_in_wait => wfm_ret.kind = "shutting_down"
    /\ (broken_in_wait /\ sd_pc = "done") => req_bg.count = 0

C7_Witness ==
    /\ broken_in_wait /\ sd_pc = "done"
    /\ term > meta.term /\ log_term # meta.term
    /\ commit_index > initial_committed_offset
    /\ \E f \in Followers : routed[f].calls = 1

\* The dispatch task of voter n has come to its end.
Finished(n) ==
    IF n = Self THEN self_pc = "done"
    ELSE fpc[n] \in {"done", "aborted"}

\* C8: every started dispatch gives _dispatch_sem exactly one permit
\* whatever its outcome, a failed batch clone included: never two, and one
\* by the time the dispatch has ended.
C8_OnePermitPerDispatch ==
    \A n \in Voters :
      /\ permits[n] <= 1
      /\ (Started(n) /\ Finished(n)) => permits[n] = 1

\* C9: the permit of a peer exists once its RPC is issued (for the leader
\* once the flush step is entered); with every dispatched RPC issued, no
\* reply in and the flush not over, the barrier is satisfied and the
\* cleanup can run or has run.
AllIssuedNoneAnswered ==
    /\ apply_pc = "done" /\ SelfAppendOk
    /\ self_pc = "flushing"
    /\ \A f \in Followers : Started(f) => fpc[f] = "in_flight"

C9_PermitAtIssue ==
    /\ self_pc = "flushing" => permits[Self] = 1
    /\ \A f \in Followers : fpc[f] = "in_flight" => permits[f] = 1
    /\ AllIssuedNoneAnswered
       => \/ cleanup_pc = "done"
          \/ cleanup_pc = "waiting" /\ dispatch_sem >= requests_count

C9_Witness ==
    /\ AllIssuedNoneAnswered
    /\ \A f \in Followers : fpc[f] = "in_flight"
    /\ cleanup_pc = "done" /\ batches = "reset" /\ units = "released"

\* C10: the batch holder is empty or the resource-unit handle released
\* only when every started dispatch has signalled _dispatch_sem.
C10_ReleaseAfterBarrier ==
    (batches = "reset" \/ units = "released")
    => /\ apply_pc = "done"
       /\ \A n \in Voters : Started(n) => permits[n] >= 1

C10_Witness ==
    /\ batches = "reset" /\ units = "released"
    /\ \E f \in Followers : fpc[f] = "in_flight"
    /\ \E f \in Followers : fpc[f] = "done"


\* The first future of wait_for_shutdown has resolved.
ShutdownResolved == sd_pc \in {"done", "done_again"}

\* C11: after a successful apply, wait_for_shutdown has resolved only in
\* states where every started dispatch has routed its reply and the cleanup
\* task has dropped the batch holder and the resource units; no dispatch and
\* no cleanup is pending then.
C11_ShutdownAfterBackground ==
    (ShutdownResolved /\ apply_ret.kind = "success")
    => /\ \A n \in Voters : Started(n) => routed[n].calls = 1
       /\ self_pc = "done"
       /\ \A f \in Followers : fpc[f] \in {"idle", "skipped", "done"}
       /\ cleanup_pc = "done"
       /\ batches = "reset" /\ units = "released"
       /\ req_bg.count = 0

C11_Witness ==
    /\ sd_pc = "done" /\ apply_ret.kind = "success"
    /\ \A f \in Followers : fpc[f] = "done"
    /\ \E f \in Followers : IsErrorReply(routed[f].reply)
    /\ cleanup_pc = "done"

\* C12: the heartbeat guard of a non-leader voter is released at most
\* once, at once when the voter is skipped, and it is released by the time
\* a started dispatch has ended.
C12_GuardReleasedOnce ==
    \A f \in voters \ {Self} :
      /\ hb_guards[f].unsuppressed <= 1
      /\ fpc[f] = "skipped" => hb_guards[f].unsuppressed = 1
      /\ (Started(f) /\ Finished(f)) => hb_guards[f].unsuppressed = 1

\* C13: every non-leader voter has its guard installed and unreleased
\* while the self append runs; a dispatched follower's guard is released
\* only when its RPC has terminated, which is after its permit; a skipped
\* follower's guard is released in the voter iteration, so before apply
\* returns.
C13_SuppressedUntilDispatchEnds ==
    /\ apply_pc \in {"share", "disk_append", "appended"}
       => \A f \in voters \ {Self} :
            hb_guards[f].installed /\ hb_guards[f].unsuppressed = 0
    /\ \A f \in voters \ {Self} :
         /\ hb_guards[f].unsuppressed > 0 => hb_guards[f].installed
         /\ (hb_guards[f].unsuppressed > 0 /\ fpc[f] # "skipped")
            => /\ fpc[f] = "done"
               /\ permits[f] = 1
               /\ rpc[f].issued = 1 => freply[f] # "none"
         /\ (fpc[f] = "skipped" /\ apply_pc = "done")
            => hb_guards[f].unsuppressed = 1
         /\ fpc[f] \in {"want_mutex", "cloning", "acquire_unit", "in_flight"}
            => hb_guards[f].unsuppressed = 0

C13_Witness ==
    /\ apply_pc = "dispatch"
    /\ \E f \in Followers : fpc[f] = "skipped" /\ hb_guards[f].unsuppressed = 1
    /\ \E f \in Followers : fpc[f] = "in_flight" /\ permits[f] = 1
                            /\ hb_guards[f].unsuppressed = 0


\* C14: after a successful self append apply returns success with
\* last_offset = _dirty_offset whatever the dispatches did, also while an
\* RPC or the leader flush is still pending; a failed unit acquisition, an
\* RPC exception, a target mismatch, an error reply and a failed flush each
\* end as the reply routed for that peer.
C14_ApplyResultFromSelfAppend ==
    /\ (apply_pc = "done" /\ SelfAppendOk)
       => apply_ret = Ret("success", dirty_offset)
    /\ \A f \in Followers :
         freply[f] # "none"
         => routed[f].calls = 1 /\ routed[f].reply = freply[f]
    /\ self_reply.kind # "none"
       => routed[Self].calls = 1 /\ routed[Self].reply = self_reply.kind

C14_Witness ==
    /\ apply_pc = "done" /\ apply_ret = Ret("success", batch_last)
    /\ routed[Self].reply = "flush_failed"
    /\ \E f \in Followers : routed[f].reply = "target_mismatch"
    /\ \E f \in Followers : fpc[f] = "in_flight"

\* C15: a second wait_for_shutdown after the first has resolved raises no
\* assertion.
C15_SecondShutdownNoEffect ==
    fatal # "assert_gate_closed_twice"


\* The voter iteration of apply takes its turn for follower f in this step.
Visited(f) == apply_pc = "dispatch" /\ f \in todo /\ f \notin todo'

\* The follower has been silent for longer than the timeout, or is not at
\* the batch's start.
SilentOrLagging(f) ==
    \/ ~fstats[f].fresh
    \/ fstats[f].expected_log_end_offset # meta.prev_log_index

\* The same of a follower whose peer stats this round has not written.
WasSilentOrLagging(f) ==
    \/ ~fstats[f].fresh
    \/ /\ fstats[f].last_sent_prev = UnsetOffset
       /\ fstats[f].expected_log_end_offset # meta.prev_log_index

\* C16: a follower that is in the peer stats, is no learner and is not on
\* its first request is skipped exactly when it is silent or lagging; a
\* three-voter round with one such follower dispatches to the leader's slot
\* and to one remote peer only.
C16_SkipIffSilentOrLagging ==
    /\ [][\A f \in Followers :
            (/\ Visited(f)
             /\ fstats[f].in_stats /\ ~fstats[f].is_learner
             /\ ~is_first_request(followers_seq[f]))
            => (fpc'[f] = "skipped" <=> SilentOrLagging(f))]_vars
    /\ [](\A f \in Followers, g \in Followers :
            (/\ apply_pc = "done" /\ SelfAppendOk
             /\ f # g /\ voters = {Self, f, g}
             /\ fstats[f].in_stats /\ ~fstats[f].is_learner
             /\ ~is_first_request(followers_seq[f]) /\ WasSilentOrLagging(f)
             /\ fpc[g] # "skipped")
            => /\ requests_count = 2
               /\ rpc[f].issued = 0 /\ ~Started(f) /\ Started(g)
               /\ rpc[g].issued <= 1)

C16_Witness ==
    /\ apply_pc = "done" /\ requests_count = 2
    /\ \E f \in Followers, g \in Followers :
         /\ fpc[f] = "skipped" /\ ~fstats[f].fresh
         /\ fstats[f].expected_log_end_offset = meta.prev_log_index
         /\ hb_guards[f].unsuppressed = 1
         /\ rpc[g].issued = 1 /\ rpc[f].issued = 0

\* C17 as stated: a learner, and a peer on its first request, is never
\* skipped.
C17_LearnerOrFirstAlwaysSent ==
    \A f \in voters \ {Self} :
      (fstats[f].in_stats
       /\ (fstats[f].is_learner \/ is_first_request(followers_seq[f])))
      => fpc[f] # "skipped"

\* C17 amended: only a peer that is no learner and is on its first request
\* bypasses the checks; a learner is skipped when silent or lagging, on its
\* first request too.
C17_VoterFirstRequestAlwaysSent ==
    [][\A f \in Followers :
         (Visited(f) /\ fstats[f].in_stats)
         => IF ~fstats[f].is_learner /\ is_first_request(followers_seq[f])
            THEN fpc'[f] # "skipped"
            ELSE fstats[f].is_learner
                 => (fpc'[f] = "skipped" <=> SilentOrLagging(f))]_vars

C17_Witness ==
    \E f \in Followers, g \in Followers :
      /\ fstats[f].is_learner /\ is_first_request(followers_seq[f])
      /\ fpc[f] = "skipped"
      /\ ~fstats[g].is_learner /\ is_first_request(followers_seq[g])
      /\ ~fstats[g].fresh /\ rpc[g].issued = 1

\* C18 as stated: a voter without a peer-stats entry is skipped: no
\* dispatch, no RPC, not counted.
C18_NotInStatsSkipped ==
    \A f \in voters \ {Self} :
      ~fstats[f].in_stats
      => /\ ~Started(f) /\ rpc[f].issued = 0
         /\ apply_pc = "done" /\ SelfAppendOk
            => requests_count = Cardinality({n \in voters \ {f} : Started(n)})

\* C18 amended: a voter without a peer-stats entry is never skipped: it is
\* counted and its dispatch is started; only no peer-stats field is
\* written for it.
C18_NotInStatsDispatched ==
    \A f \in voters \ {Self} :
      ~fstats[f].in_stats
      => /\ fpc[f] # "skipped"
         /\ hb_guards[f].unsuppressed > 0 => fpc[f] = "done"
         /\ fstats[f].expected_log_end_offset = meta.prev_log_index
         /\ fstats[f].last_sent_prev = UnsetOffset
         /\ (apply_pc = "done" /\ SelfAppendOk)
            => /\ Started(f)
               /\ requests_count = Cardinality({n \in voters : Started(n)})

C18_Witness ==
    \E f \in voters \ {Self} :
      /\ ~fstats[f].in_stats
      /\ apply_pc = "done" /\ requests_count = 2
      /\ fpc[f] = "done" /\ routed[f].calls = 1


\* C19: when apply has returned success, _requests_count is the number of
\* voters a dispatch was started for (the leader's slot and the followers
\* that were not skipped), it is what the cleanup's barrier waits for, and
\* it does not change any more.
C19_RequestsCountIsStarted ==
    /\ []((apply_pc = "done" /\ SelfAppendOk)
          => /\ requests_count = Cardinality({n \in voters : Started(n)})
             /\ requests_count =
                  1 + Cardinality({f \in voters \ {Self} : fpc[f] # "skipped"})
             /\ barrier_permits = requests_count)
    /\ [][apply_pc = "done" => requests_count' = requests_count]_vars

C19_Witness ==
    /\ apply_pc = "done" /\ SelfAppendOk
    /\ Cardinality(voters) = 3 /\ requests_count = 2
    /\ \E f \in Followers : fpc[f] = "skipped"
    /\ cleanup_pc = "done"

\* C20: process_append_entries_reply is called at most once per peer, once
\* for every peer whose dispatch has run to its end, with the reply, the
\* round's _dirty_offset and the caller's sequence (0 for the leader's
\* slot); never for a skipped peer; and the error probe counts exactly the
\* routed error replies.
C20_ReplyRoutedOnce ==
    /\ \A n \in Voters :
         /\ routed[n].calls <= 1
         /\ (Started(n) /\ Finished(n)) => routed[n].calls = 1
         /\ routed[n].calls = 1
            => /\ Started(n)
               /\ routed[n].dirty = dirty_offset
               /\ routed[n].seq = (IF n = Self THEN 0 ELSE followers_seq[n])
               /\ routed[n].reply =
                    (IF n = Self THEN self_reply.kind ELSE freply[n])
    /\ \A f \in Followers : fpc[f] = "skipped" => routed[f].calls = 0
    /\ probe_errors = Cardinality({n \in Voters : IsErrorReply(routed[n].reply)})


\* C21: the leader's slot asks for a flush exactly when flush is required;
\* its reply is a success naming the leader as node and target, with
\* _dirty_offset as dirty and as flushed index, when the flush went well or
\* none was asked for, and leader_flush_failed exactly when a required
\* flush failed.
C21_SelfFlushReply ==
    /\ flush_requested => is_flush_required /\ self_pc # "idle"
    /\ self_pc # "idle" => flush_requested = is_flush_required
    /\ self_pc = "done"
       => /\ self_reply.kind \in {"ok", "flush_failed"}
          /\ self_reply.kind = "flush_failed"
             <=> (is_flush_required /\ self_reply.flush_threw)
          /\ self_reply.kind = "ok"
             => /\ self_reply.node_id = Self
                /\ self_reply.target_node_id = Self
                /\ self_reply.dirty = dirty_offset
                /\ self_reply.flushed = dirty_offset
                /\ dirty_offset = batch_last
          /\ routed[Self].reply = self_reply.kind

C21_Witness ==
    /\ ~is_flush_required /\ ~flush_requested
    /\ self_pc = "done" /\ self_reply.kind = "ok"
    /\ self_reply.flushed = batch_last


\* The earlier round started a dispatch for follower f.
DispatchedEarlier(f) ==
    earlier[f] \in {"want_mutex", "cloning", "acquire_unit", "in_flight",
                    "done", "aborted"}

\* C22: expected_log_end_offset and last_sent_protocol_meta of a follower
\* change only in the voter iteration's turn that dispatches it, to
\* _dirty_offset and _meta, before any RPC or reply of that dispatch, and
\* a skipped follower keeps both.  In the next round, which starts at this
\* round's _dirty_offset, a follower dispatched before is at the batch's
\* start whether or not it has answered, so only silence can skip it, and a
\* follower skipped for its offset is skipped again.
C22_PeerStatsWrittenAtDispatch ==
    /\ [][\A f \in Followers :
            /\ (\/ fstats'[f].expected_log_end_offset
                     # fstats[f].expected_log_end_offset
                \/ fstats'[f].last_sent_prev # fstats[f].last_sent_prev)
               => /\ Visited(f) /\ fpc'[f] = "want_mutex"
                  /\ rpc'[f].issued = 0 /\ routed'[f].calls = 0
            /\ (Visited(f) /\ fpc'[f] = "skipped")
               => /\ fstats'[f].expected_log_end_offset
                       = fstats[f].expected_log_end_offset
                  /\ fstats'[f].last_sent_prev = fstats[f].last_sent_prev
            /\ (Visited(f) /\ fpc'[f] # "skipped" /\ fstats[f].in_stats)
               => /\ fstats'[f].expected_log_end_offset = dirty_offset
                  /\ fstats'[f].last_sent_prev = meta.prev_log_index]_vars
    /\ [][\A f \in Followers :
            /\ (Visited(f) /\ DispatchedEarlier(f) /\ fstats[f].in_stats)
               => /\ fstats[f].expected_log_end_offset = meta.prev_log_index
                  /\ fstats[f].fresh => fpc'[f] # "skipped"
            /\ (Visited(f) /\ earlier[f] = "skipped_for_offset")
               => fpc'[f] = "skipped"]_vars

C22_Witness ==
    /\ meta.prev_log_index = MaxOffset
    /\ \E f \in Followers, g \in Followers :
         /\ earlier[f] = "in_flight" /\ rpc[f].issued = 1
         /\ earlier[g] = "skipped_for_offset" /\ fpc[g] = "skipped"
         /\ fstats[g].fresh


\* C23: share_batches is never entered on an empty holder.  At most one
\* cloning is inside the mutex; a follower has its clone before its permit;
\* the holder is reset only when no started follower has its cloning still
\* ahead or under way; and while no cloning has failed, the holder has a
\* copy whenever the mutex is free.
C23_NoShareOfEmptyHolder ==
    /\ Cardinality(share_mutex) <= 1
    /\ \A f \in Followers :
         /\ fpc[f] = "cloning" <=> share_mutex = {f}
         /\ fpc[f] \in {"want_mutex", "cloning"}
            => batches # "reset" /\ cleanup_pc # "done"
         /\ permits[f] > 0
            => fpc[f] \in {"in_flight", "done"}
    /\ batches = "reset"
       => /\ cleanup_pc = "done"
          /\ \A n \in voters : Started(n) => permits[n] = 1
    /\ (share_mutex = {} /\ apply_pc \in {"dispatch", "done"} /\ SelfAppendOk
        /\ batches # "reset" /\ \A f \in Followers : fpc[f] # "aborted")
       => batches = "held"

C23_Witness ==
    /\ batches = "reset" /\ cleanup_pc = "done"
    /\ Cardinality(voters) = 3
    /\ \A f \in Followers : rpc[f].issued = 1
    /\ \E f \in Followers : fpc[f] = "in_flight"


\* C24: once apply has returned and every started dispatch has come to
\* its end, the barrier of the cleanup is satisfied (or the cleanup is
\* through, or apply failed and spawned none), so nothing is left that
\* could keep wait_for_shutdown from resolving; no ended dispatch leaves
\* the cleanup waiting for a permit that cannot come any more.
C24_ShutdownCanResolve ==
    (/\ Running /\ apply_pc = "done"
     /\ \A n \in voters : Started(n) => Finished(n))
    => /\ \/ cleanup_pc = "done"
          \/ cleanup_pc = "waiting" /\ dispatch_sem >= barrier_permits
          \/ cleanup_pc = "idle" /\ SelfAppendFailed
       /\ cleanup_pc # "waiting" => req_bg.count = 0

====
